---- MODULE Spec2Model ----
(***************************************************************************)
(* Pandora2D configuration validator (pandora2d/check_json.py).            *)
(*                                                                         *)
(* check_conf(user_cfg, pandora2d_machine) is modelled as one action that  *)
(* runs the whole function: exclusivity test, pipeline section, input      *)
(* section, nodata/method test, concatenation.  Python dictionaries are    *)
(* functions over the set of keys they hold; the user's "pipeline"         *)
(* dictionary, whose key order the state machine walks, is a sequence of   *)
(* [step, cfg] records.  Python values are tagged records [t, v].          *)
(***************************************************************************)
EXTENDS Integers, Sequences, FiniteSets, TLC

VARIABLES
    user_cfg,      \* argument of the last call of check_conf
    outcome,       \* how the last call ended: [kind, exit_code, log]
    ret,           \* dictionary the last call returned (EmptyDict if none)
    passes,        \* the passes of check_conf the last call entered, in order
    pipeline_cfg,  \* pandora2d_machine.pipeline_cfg["pipeline"]
    machine_before,\* pipeline_cfg as it was when the last call started
    called         \* TRUE once check_conf has been called on the machine

vars == <<user_cfg, outcome, ret, passes, pipeline_cfg, machine_before, called>>

(***************************************************************************)
(* Bounds of the explored inputs.                                          *)
(***************************************************************************)
\* integer disparity bounds are drawn from 0 .. MaxDisp
MaxDisp == 1
\* user pipelines hold at most MaxSteps steps
MaxSteps == 1

(***************************************************************************)
(* Python values.                                                          *)
(***************************************************************************)
PyInt(n) == [t |-> "int", v |-> n]
\* a finite float, v counted in tenths: PyFloat(99995) is 9999.5, PyFloat(99990) is 9999.0
PyFloat(tenths) == [t |-> "float", v |-> tenths]
NaN == [t |-> "nan", v |-> 0]
Inf == [t |-> "inf", v |-> 0]
PyStr(s) == [t |-> "str", v |-> s]

IsInstanceInt(x) == x.t = "int"
IsInstanceFloat(x) == x.t \in {"float", "nan", "inf"}
IsInstanceStr(x) == x.t = "str"
np_isnan(x) == x.t = "nan"
np_isinf(x) == x.t = "inf"

EmptyDict == [k \in {} |-> 0]

DispKeys == {"disp_min_col", "disp_max_col", "disp_min_row", "disp_max_row"}

(***************************************************************************)
(* Module-level tables of check_json.py.                                   *)
(***************************************************************************)
NoDataDefault == -9999

default_short_configuration_input ==
    [input |-> [nodata_left |-> PyInt(NoDataDefault),
                nodata_right |-> PyInt(NoDataDefault),
                disp_min_col |-> NaN,
                disp_max_col |-> NaN,
                disp_min_row |-> NaN,
                disp_max_row |-> NaN]]

\* A schema maps each key to a constraint; the constraints used are
\*   "raster"  And(str, rasterio_can_open_mandatory)
\*   "nodata"  Or(int, np.isnan, np.isinf)
\*   "int"     int
\*   "isnan"   lambda input: np.isnan(input)
input_configuration_schema ==
    [img_left |-> "raster", img_right |-> "raster",
     nodata_left |-> "nodata", nodata_right |-> "nodata",
     disp_min_col |-> "int", disp_max_col |-> "int",
     disp_min_row |-> "int", disp_max_row |-> "int"]

\* a faulty estimation schema: the bounds checked with the nodata constraint
estim_schema_bounds_as_nodata ==
    [img_left |-> "raster", img_right |-> "raster",
     nodata_left |-> "nodata", nodata_right |-> "nodata",
     disp_min_col |-> "nodata", disp_max_col |-> "nodata",
     disp_min_row |-> "nodata", disp_max_row |-> "nodata"]

\* lines 150-159
estim_input_configuration_schema ==
    [img_left |-> "raster", img_right |-> "raster",
     nodata_left |-> "nodata", nodata_right |-> "nodata",
     disp_min_col |-> "isnan", disp_max_col |-> "isnan",
     disp_min_row |-> "isnan", disp_max_row |-> "isnan"]

(***************************************************************************)
(* Collaborators imported from pandora.check_json and json_checker.        *)
(***************************************************************************)
\* raster files of the environment: the size of each openable one
RasterSize(path) ==
    CASE path = "left.tif" -> 1
      [] path = "right.tif" -> 1
      [] path = "big.tif" -> 2
      [] OTHER -> 0

rasterio_can_open_mandatory(x) == RasterSize(x.v) > 0

\* update_conf(def_cfg, user_cfg): recursive overlay of user_cfg on a copy of
\* def_cfg; depth is the number of dictionary levels below this one.
RECURSIVE update_conf(_, _, _)
update_conf(def_cfg, cfg, depth) ==
    [k \in (DOMAIN def_cfg) \cup (DOMAIN cfg) |->
        IF k \notin DOMAIN cfg THEN def_cfg[k]
        ELSE IF depth > 0
             THEN update_conf(IF k \in DOMAIN def_cfg THEN def_cfg[k] ELSE EmptyDict,
                              cfg[k], depth - 1)
             ELSE cfg[k]]

get_config_input(cfg) ==
    IF "input" \in DOMAIN cfg THEN [input |-> cfg["input"]] ELSE EmptyDict

get_config_pipeline(cfg) ==
    IF "pipeline" \in DOMAIN cfg THEN [pipeline |-> cfg["pipeline"]] ELSE EmptyDict

\* concat_conf([cfg_input, cfg_pipeline]): one dictionary holding both
concat_conf(cfg_input, cfg_pipeline) ==
    [k \in (DOMAIN cfg_input) \cup (DOMAIN cfg_pipeline) |->
        IF k \in DOMAIN cfg_pipeline THEN cfg_pipeline[k] ELSE cfg_input[k]]

\* a faulty constraint evaluation: the nodata constraint accepts any number
ConformsAnyNumber(constraint, x) ==
    CASE constraint = "raster" -> IsInstanceStr(x) /\ rasterio_can_open_mandatory(x)
      [] constraint = "nodata" -> IsInstanceInt(x) \/ IsInstanceFloat(x)
      [] constraint = "int" -> IsInstanceInt(x)
      [] constraint = "isnan" -> np_isnan(x)

\* one constraint of a schema against one value
Conforms(constraint, x) ==
    CASE constraint = "raster" -> IsInstanceStr(x) /\ rasterio_can_open_mandatory(x)
      [] constraint = "nodata" -> IsInstanceInt(x) \/ np_isnan(x) \/ np_isinf(x)
      [] constraint = "int" -> IsInstanceInt(x)
      [] constraint = "isnan" -> np_isnan(x)

\* Checker(schema).validate(section): every key of the schema is present and
\* conforms, and the section holds no other key
Validate(schema, section) ==
    /\ DOMAIN section = DOMAIN schema
    /\ \A k \in DOMAIN schema : Conforms(schema[k], section[k])

\* check_images: both rasters must have the same size, else sys.exit(1)
check_images(img_left, img_right) == RasterSize(img_left.v) = RasterSize(img_right.v)

\* check_disparities: same type, and max >= min for integers, else sys.exit(1)
check_disparities(disp_min, disp_max) ==
    /\ disp_min.t = disp_max.t
    /\ (IsInstanceInt(disp_min) /\ IsInstanceInt(disp_max)) => disp_max.v >= disp_min.v

(***************************************************************************)
(* Pandora2DMachine (pandora2d/state_machine.py): the gate.                *)
(***************************************************************************)
MachineNext(state, step) ==
    CASE state = "begin" /\ step = "estimation" -> "assumption"
      [] state \in {"begin", "assumption"} /\ step = "matching_cost" -> "cost_volumes"
      [] state = "cost_volumes" /\ step = "disparity" -> "disp_maps"
      [] state = "disp_maps" /\ step = "refinement" -> "disp_maps"
      [] OTHER -> "invalid"

MatchingCostMethods == {"sad", "ssd", "zncc"}

StepValid(s) ==
    s.step = "matching_cost" =>
        /\ "matching_cost_method" \in DOMAIN s.cfg
        /\ s.cfg["matching_cost_method"] \in MatchingCostMethods

StepDefaults(step) ==
    IF step = "matching_cost" THEN [window_size |-> "5"] ELSE EmptyDict

RECURSIVE MachineWalk(_, _)
MachineWalk(state, steps) ==
    IF steps = <<>> THEN TRUE
    ELSE LET nxt == MachineNext(state, Head(steps).step)
         IN  /\ nxt # "invalid"
             /\ StepValid(Head(steps))
             /\ MachineWalk(nxt, Tail(steps))

StepNames(pipeline) == {pipeline[i].step : i \in 1..Len(pipeline)}

\* the dictionary a pipeline sequence stands for: step name -> parameters
StepsDict(pipeline) ==
    [n \in StepNames(pipeline) |->
        pipeline[CHOOSE i \in 1..Len(pipeline) : pipeline[i].step = n].cfg]

\* pandora2d_machine.check_conf(pipeline): raises on an illegal walk or an
\* invalid step, else leaves the normalized pipeline in pipeline_cfg
Pandora2DMachine_check_conf(pipeline, machine) ==
    IF MachineWalk("begin", pipeline)
    THEN [raised |-> FALSE,
          pipeline_cfg |-> [n \in StepNames(pipeline) |->
                               update_conf(StepDefaults(n), StepsDict(pipeline)[n], 0)]]
    ELSE [raised |-> TRUE, pipeline_cfg |-> machine]

(***************************************************************************)
(* pandora2d/check_json.py                                                 *)
(***************************************************************************)
ExclusivityMessage ==
    "Disparities can't be set in config file with estimation step (and vice versa)"
NodataMessage ==
    "nodata_right must be int type with sad or ssd matching_cost_method (ex: 9999)"

\* a call that ends without returning: an exception kind, or SystemExit
Raise(kind, exit_code, log, entered, machine) ==
    [kind |-> kind, exit_code |-> exit_code, log |-> log, cfg |-> EmptyDict,
     passes |-> entered, machine |-> machine]

SysExit(message, entered, machine) == Raise("SystemExit", 1, <<message>>, entered, machine)

\* a faulty merge: the arguments of update_conf exchanged
MergeSwapped(cfg_in) == update_conf(cfg_in, default_short_configuration_input, 1)

\* line 55: the defaults completed by the user's values
MergeInputDefaults(cfg_in) == update_conf(default_short_configuration_input, cfg_in, 1)

\* lines 57-60: the schema variant
ChooseSchema(flag_estim) ==
    IF flag_estim THEN estim_input_configuration_schema ELSE input_configuration_schema

\* check_input_section(user_cfg, flag_estim)
check_input_section(cfg_in, flag_estim) ==
    LET cfg == MergeInputDefaults(cfg_in)
        configuration_schema == ChooseSchema(flag_estim)
        inp == cfg["input"]
    IN  IF ~Validate(configuration_schema, inp)
        THEN [kind |-> "DictCheckerError", log |-> <<>>, cfg |-> EmptyDict]
        ELSE IF ~check_images(inp["img_left"], inp["img_right"])
        THEN [kind |-> "SystemExit", log |-> <<"Images must have the same size">>,
              cfg |-> EmptyDict]
        ELSE IF \/ ~check_disparities(inp["disp_min_col"], inp["disp_max_col"])
                \/ ~check_disparities(inp["disp_min_row"], inp["disp_max_row"])
        THEN [kind |-> "SystemExit", log |-> <<"Disp_max must be bigger than Disp_min">>,
              cfg |-> EmptyDict]
        ELSE [kind |-> "ok", log |-> <<>>, cfg |-> cfg]

\* a faulty check_pipeline_section: the user's pipeline is laid over what the
\* machine held when the call started
check_pipeline_section_stale(cfg_in, machine) ==
    LET cfg == update_conf([pipeline |-> machine],
                           [pipeline |-> StepsDict(cfg_in["pipeline"])], 2)
        gate == Pandora2DMachine_check_conf(cfg_in["pipeline"], machine)
    IN  IF gate.raised
        THEN [kind |-> "MachineError", cfg |-> EmptyDict, machine |-> gate.pipeline_cfg]
        ELSE [kind |-> "ok",
              cfg |-> update_conf(cfg, [pipeline |-> gate.pipeline_cfg], 2),
              machine |-> gate.pipeline_cfg]

\* check_pipeline_section(user_cfg, pandora2d_machine); machine is the value of
\* pandora2d_machine.pipeline_cfg when the call starts
check_pipeline_section(cfg_in, machine) ==
    LET cfg == [pipeline |-> StepsDict(cfg_in["pipeline"])]
        gate == Pandora2DMachine_check_conf(cfg_in["pipeline"], machine)
    IN  IF gate.raised
        THEN [kind |-> "MachineError", cfg |-> EmptyDict, machine |-> gate.pipeline_cfg]
        ELSE [kind |-> "ok",
              cfg |-> update_conf(cfg, [pipeline |-> gate.pipeline_cfg], 2),
              machine |-> gate.pipeline_cfg]

\* line 115
FlagEstim(cfg) == "estimation" \in StepNames(cfg["pipeline"])

\* a faulty set test: one disparity key is enough
DisparitiesSetAny(cfg) == DispKeys \cap DOMAIN cfg["input"] # {}

\* line 116, the set test
DisparitiesSet(cfg) == DispKeys \subseteq DOMAIN cfg["input"]

\* a faulty exclusivity test: or in place of xor
xorAsOr(a, b) == a \/ b

\* line 116, operator.xor
xor(a, b) == a # b

\* lines 128-134: the nodata/method test, then concat_conf
NodataAndConcat(cfg_input, cfg_pipeline, entered, machine) ==
    LET here == Append(entered, "nodata")
    IN  IF ~IsInstanceFloat(cfg_input["input"]["nodata_right"])
        THEN [kind |-> "returned", exit_code |-> 0, log |-> <<>>,
              cfg |-> concat_conf(cfg_input, cfg_pipeline),
              passes |-> Append(here, "concat"), machine |-> machine]
        ELSE IF "matching_cost" \notin DOMAIN cfg_pipeline["pipeline"]
        THEN Raise("KeyError", 0, <<>>, here, machine)
        ELSE IF "matching_cost_method" \notin DOMAIN cfg_pipeline["pipeline"]["matching_cost"]
        THEN Raise("KeyError", 0, <<>>, here, machine)
        ELSE IF cfg_pipeline["pipeline"]["matching_cost"]["matching_cost_method"]
                    \in {"sad", "ssd"}
        THEN SysExit(NodataMessage, here, machine)
        ELSE [kind |-> "returned", exit_code |-> 0, log |-> <<>>,
              cfg |-> concat_conf(cfg_input, cfg_pipeline),
              passes |-> Append(here, "concat"), machine |-> machine]

\* lines 124-134
InputAndAfter(cfg, flag_estim, cfg_pipeline, entered, machine) ==
    LET here == Append(entered, "input")
        i == check_input_section(get_config_input(cfg), flag_estim)
    IN  IF i.kind = "ok"
        THEN NodataAndConcat(i.cfg, cfg_pipeline, here, machine)
        ELSE Raise(i.kind, IF i.kind = "SystemExit" THEN 1 ELSE 0, i.log, here, machine)

\* lines 120-134
PipelineAndAfter(cfg, flag_estim, entered, machine) ==
    LET here == Append(entered, "pipeline")
        p == check_pipeline_section(get_config_pipeline(cfg), machine)
    IN  IF p.kind = "ok"
        THEN InputAndAfter(cfg, flag_estim, p.cfg, here, p.machine)
        ELSE Raise(p.kind, 0, <<>>, here, p.machine)

\* a faulty check_conf: the pipeline section is checked before the
\* exclusivity test
check_conf_gate_first(cfg, machine) ==
    IF "pipeline" \notin DOMAIN cfg \/ "input" \notin DOMAIN cfg
    THEN Raise("KeyError", 0, <<>>, <<"pipeline">>, machine)
    ELSE LET p == check_pipeline_section(get_config_pipeline(cfg), machine)
         IN  IF p.kind # "ok"
             THEN Raise(p.kind, 0, <<>>, <<"pipeline">>, p.machine)
             ELSE IF ~xor(FlagEstim(cfg), DisparitiesSet(cfg))
             THEN SysExit(ExclusivityMessage, <<"pipeline", "exclusivity">>, p.machine)
             ELSE InputAndAfter(cfg, FlagEstim(cfg), p.cfg,
                                <<"pipeline", "exclusivity">>, p.machine)

\* check_conf(user_cfg, pandora2d_machine)
check_conf(cfg, machine) ==
    IF "pipeline" \notin DOMAIN cfg \/ "input" \notin DOMAIN cfg
    THEN Raise("KeyError", 0, <<>>, <<"exclusivity">>, machine)
    ELSE IF ~xor(FlagEstim(cfg), DisparitiesSet(cfg))
    THEN SysExit(ExclusivityMessage, <<"exclusivity">>, machine)
    ELSE PipelineAndAfter(cfg, FlagEstim(cfg), <<"exclusivity">>, machine)

(***************************************************************************)
(* The configurations explored.                                            *)
(***************************************************************************)
Absent == [t |-> "absent", v |-> 0]

\* the dictionary holding the keys of f that are not Absent
Dict(f) == [k \in {k \in DOMAIN f : f[k] # Absent} |-> f[k]]

\* the column bounds range over the integers 0..MaxDisp, the row bounds over 0
ColValues == {Absent, NaN} \cup {PyInt(n) : n \in 0..MaxDisp}
RowValues == {Absent, NaN, PyInt(0)}

InputSections ==
    { Dict([img_left |-> il, img_right |-> PyStr("right.tif"),
            nodata_left |-> nl, nodata_right |-> nr,
            disp_min_col |-> d1, disp_max_col |-> d2,
            disp_min_row |-> d3, disp_max_row |-> d4]) :
        il \in {Absent, PyStr("left.tif"), PyStr("big.tif"), PyStr("missing.tif")},
        nl \in {Absent, PyInt(0)},
        nr \in {Absent, PyInt(9999), PyFloat(99995), PyFloat(99990), NaN, Inf},
        d1 \in ColValues, d2 \in ColValues, d3 \in RowValues, d4 \in RowValues }

Steps ==
    {[step |-> "estimation", cfg |-> EmptyDict],
     [step |-> "disparity", cfg |-> EmptyDict]}
    \cup {[step |-> "matching_cost", cfg |-> [matching_cost_method |-> m]] :
            m \in MatchingCostMethods}

\* a Python dictionary holds each key once
DistinctSteps(p) == \A i, j \in 1..Len(p) : p[i].step = p[j].step => i = j

PipelineSections ==
    {p \in UNION {[1..n -> Steps] : n \in 0..MaxSteps} : DistinctSteps(p)}

Configs ==
    {[input |-> i, pipeline |-> p] : i \in InputSections, p \in PipelineSections}
    \cup {[input |-> i] : i \in {j \in InputSections : DispKeys \cap DOMAIN j = {}}}
    \cup {[pipeline |-> p] : p \in PipelineSections}

(***************************************************************************)
(* Actions.                                                                *)
(***************************************************************************)
Init ==
    /\ user_cfg = EmptyDict
    /\ outcome = [kind |-> "none", exit_code |-> 0, log |-> <<>>]
    /\ ret = EmptyDict
    /\ passes = <<>>
    /\ pipeline_cfg = EmptyDict
    /\ machine_before = EmptyDict
    /\ called = FALSE

\* one call of check_conf on the machine
CheckConf(cfg) ==
    \E r \in {check_conf(cfg, pipeline_cfg)} :
        /\ user_cfg' = cfg
        /\ outcome' = [kind |-> r.kind, exit_code |-> r.exit_code, log |-> r.log]
        /\ ret' = r.cfg
        /\ passes' = r.passes
        /\ pipeline_cfg' = r.machine
        /\ machine_before' = pipeline_cfg
        /\ called' = TRUE

\* a machine is built and check_conf is called on it once
FirstCall == ~called /\ \E cfg \in Configs : CheckConf(cfg)

Next == FirstCall

Spec == Init /\ [][Next]_vars

\* the configurations of the runs that call check_conf again and again on
\* one machine
ReuseInputs ==
    { Dict([img_left |-> PyStr("left.tif"), img_right |-> PyStr("right.tif"),
            nodata_left |-> Absent, nodata_right |-> nr,
            disp_min_col |-> d, disp_max_col |-> d,
            disp_min_row |-> d, disp_max_row |-> d]) :
        nr \in {Absent, NaN, PyInt(9999)}, d \in {Absent, PyInt(0)} }

ReuseConfigs ==
    {[input |-> i, pipeline |-> p] : i \in ReuseInputs, p \in PipelineSections}

\* check_conf called on a machine that may have served earlier calls
AnyCall == \E cfg \in ReuseConfigs : CheckConf(cfg)

NextReuse == AnyCall

SpecReuse == Init /\ [][NextReuse]_vars

(***************************************************************************)
(* Vocabulary of the properties: facts about the configuration the user    *)
(* passed and about the way the call ended.                                *)
(***************************************************************************)
HasSections == {"input", "pipeline"} \subseteq DOMAIN user_cfg
UserInput == user_cfg["input"]
UserPipeline == user_cfg["pipeline"]

Returned == outcome.kind = "returned"
\* the process ends with a nonzero status after the message was logged
Terminated(message) ==
    outcome.kind = "SystemExit" /\ outcome.exit_code = 1 /\ outcome.log = <<message>>
\* an exception of the given kind reaches the caller, the process goes on
Propagated(kind) == outcome.kind = kind /\ outcome.exit_code = 0

\* (a) the pipeline section contains an estimation step
EstimationDeclared ==
    HasSections /\ \E i \in 1..Len(UserPipeline) : UserPipeline[i].step = "estimation"
\* (b) the input section contains all four disparity-bound keys
AllFourBounds == HasSections /\ \A k \in DispKeys : k \in DOMAIN UserInput
ExactlyOne == (EstimationDeclared /\ ~AllFourBounds) \/ (~EstimationDeclared /\ AllFourBounds)

MatchingCostDeclared ==
    \E i \in 1..Len(UserPipeline) : UserPipeline[i].step = "matching_cost"
SadOrSsdDeclared ==
    \E i \in 1..Len(UserPipeline) :
        /\ UserPipeline[i].step = "matching_cost"
        /\ UserPipeline[i].cfg["matching_cost_method"] \in {"sad", "ssd"}
LegalPipeline == MachineWalk("begin", UserPipeline)

FourIntegerBounds == AllFourBounds /\ \A k \in DispKeys : UserInput[k].t = "int"
OrderedBounds ==
    /\ UserInput["disp_min_col"].v <= UserInput["disp_max_col"].v
    /\ UserInput["disp_min_row"].v <= UserInput["disp_max_row"].v
OpenableImages ==
    /\ {"img_left", "img_right"} \subseteq DOMAIN UserInput
    /\ RasterSize(UserInput["img_left"].v) > 0
    /\ RasterSize(UserInput["img_right"].v) > 0
SameSizeImages == RasterSize(UserInput["img_left"].v) = RasterSize(UserInput["img_right"].v)
NodataLeftValid ==
    "nodata_left" \in DOMAIN UserInput => UserInput["nodata_left"].t \in {"int", "nan", "inf"}
\* nodata_right as check_conf reads it after the defaults are merged
ResolvedNodataRight ==
    IF "nodata_right" \in DOMAIN UserInput THEN UserInput["nodata_right"] ELSE PyInt(-9999)

IsPrefix(s, t) == Len(s) <= Len(t) /\ \A i \in 1..Len(s) : s[i] = t[i]

(***************************************************************************)
(* C1                                                                      *)
(***************************************************************************)
\* C1: check_conf returns a configuration only if exactly one of "estimation
\* step declared" and "all four disparity-bound keys present" holds; when
\* both or neither hold the call is rejected and nothing is returned.
C1_Exclusivity ==
    called =>
        /\ Returned => ExactlyOne
        /\ ~ExactlyOne => ~Returned /\ ret = EmptyDict
        /\ (HasSections /\ ~ExactlyOne) => Terminated(ExclusivityMessage)

\* estimation declared together with four integer bounds: the run terminates
C1_Witness ==
    /\ called /\ EstimationDeclared /\ FourIntegerBounds
    /\ Terminated(ExclusivityMessage)

(***************************************************************************)
(* C2                                                                      *)
(***************************************************************************)
\* a sad/ssd pipeline over an input that is valid but for nodata_right
C2_Case ==
    /\ HasSections /\ LegalPipeline /\ SadOrSsdDeclared /\ ~EstimationDeclared
    /\ OpenableImages /\ SameSizeImages /\ NodataLeftValid
    /\ FourIntegerBounds /\ OrderedBounds
    /\ "nodata_right" \in DOMAIN UserInput

\* C2 as claimed: with sad or ssd, a nodata_right such as 9999.5 or 9999.0 ends
\* in the nodata/method ConsistencyViolation (fatal), and the integer 9999 is
\* accepted.
C2_Original ==
    (called /\ C2_Case) =>
        /\ UserInput["nodata_right"].t = "float" => Terminated(NodataMessage)
        /\ UserInput["nodata_right"] = PyInt(9999) => Returned

\* C2 amended: with sad or ssd, a nodata_right such as 9999.5 or 9999.0 is
\* rejected by the input schema (an error propagated to the caller, no
\* termination), and the integer 9999 is accepted and returned.
C2_Amended ==
    (called /\ C2_Case) =>
        /\ UserInput["nodata_right"].t = "float" =>
              Propagated("DictCheckerError") /\ ret = EmptyDict
        /\ UserInput["nodata_right"] = PyInt(9999) =>
              Returned /\ ret["input"]["nodata_right"] = PyInt(9999)

C2_Witness ==
    /\ called /\ C2_Case /\ UserInput["nodata_right"] = PyFloat(99995)
    /\ Propagated("DictCheckerError")

(***************************************************************************)
(* C3                                                                      *)
(***************************************************************************)
\* no estimation step and a proper non-empty subset of the four bounds
C3_Case ==
    /\ HasSections /\ ~EstimationDeclared
    /\ DispKeys \cap DOMAIN UserInput # {}
    /\ ~AllFourBounds

\* C3 as claimed: such a configuration passes the exclusivity test and fails
\* with a SchemaViolation of the standard input schema.
C3_Original == (called /\ C3_Case) => Propagated("DictCheckerError")

\* C3 amended: such a configuration counts as "disparities not configured",
\* fails the exclusivity test and terminates the run with status 1 before
\* any schema is applied.
C3_Amended ==
    (called /\ C3_Case) =>
        /\ Terminated(ExclusivityMessage)
        /\ passes = <<"exclusivity">>
        /\ ret = EmptyDict

\* two of the four bounds set
C3_Witness ==
    /\ called /\ C3_Case
    /\ Cardinality(DispKeys \cap DOMAIN UserInput) = 2
    /\ Terminated(ExclusivityMessage)

(***************************************************************************)
(* C4                                                                      *)
(***************************************************************************)
\* C4: a failing run on a configuration holding both sections either
\* terminates with status 1 after an error message, or propagates a schema
\* or a state-machine error; it never returns a configuration.
C4_FailureSurface ==
    (called /\ HasSections /\ ~Returned) =>
        /\ ret = EmptyDict
        /\ \/ outcome.kind = "SystemExit" /\ outcome.exit_code = 1 /\ outcome.log # <<>>
           \/ Propagated("DictCheckerError")
           \/ Propagated("MachineError")

(***************************************************************************)
(* C5                                                                      *)
(***************************************************************************)
C5_ScenarioA ==
    /\ HasSections /\ OpenableImages /\ FourIntegerBounds
    /\ ~EstimationDeclared /\ ~MatchingCostDeclared /\ LegalPipeline

\* C5: every configuration with openable rasters, four integer bounds, no
\* estimation step, no matching_cost step and a legal pipeline is accepted,
\* and the returned bounds are the user's.  The premises are read with
\* every input field valid on its own: rasters of one size, each minimum
\* bound at most its maximum, nodata values an integer, NaN or Infinity.
C5_ScenarioAAccepted ==
    (called /\ C5_ScenarioA /\ SameSizeImages /\ OrderedBounds
        /\ NodataLeftValid /\ ResolvedNodataRight.t \in {"int", "nan", "inf"}) =>
        /\ Returned
        /\ \A k \in DispKeys : ret["input"][k] = UserInput[k]

(***************************************************************************)
(* C6                                                                      *)
(***************************************************************************)
\* C6: in a returned configuration every input key of the user carries the
\* user's value, and every default key the user omitted carries its default
\* (-9999 for the nodata keys, NaN for the four bounds).
C6_DefaultsNeverOverride ==
    (called /\ Returned) =>
        /\ \A k \in DOMAIN UserInput :
              k \in DOMAIN ret["input"] /\ ret["input"][k] = UserInput[k]
        /\ \A k \in {"nodata_left", "nodata_right"} \ DOMAIN UserInput :
              ret["input"][k] = PyInt(-9999)
        /\ \A k \in DispKeys \ DOMAIN UserInput : ret["input"][k] = NaN

\* the user sets nodata_right and omits nodata_left
C6_Witness ==
    /\ called /\ Returned
    /\ "nodata_right" \in DOMAIN UserInput /\ UserInput["nodata_right"] = PyInt(9999)
    /\ "nodata_left" \notin DOMAIN UserInput
    /\ ret["input"]["nodata_left"] = PyInt(-9999)

(***************************************************************************)
(* C7                                                                      *)
(***************************************************************************)
\* C7 as claimed: the gate runs first, so a configuration that violates the
\* gate (or the input schema) and the exclusivity rule ends in the gate's
\* (or the schema's) error.
C7_Original ==
    (called /\ HasSections /\ ~ExactlyOne) =>
        /\ ~LegalPipeline => Propagated("MachineError")
        /\ (LegalPipeline /\ "img_left" \notin DOMAIN UserInput) =>
              Propagated("DictCheckerError")

\* C7 amended: the exclusivity test runs first, then the gate on the
\* pipeline section, then the input merge and schema, then the nodata/method
\* test, then the concatenation; the first failing pass decides the outcome
\* and no later pass runs, so a configuration that violates the exclusivity
\* rule terminates the run whatever else is wrong with it.
C7_Amended ==
    called =>
        /\ IsPrefix(passes, <<"exclusivity", "pipeline", "input", "nodata", "concat">>)
        /\ Len(passes) >= 1
        /\ Returned <=> Len(passes) = 5
        /\ Len(passes) = 1 => outcome.kind \in {"KeyError", "SystemExit"}
        /\ Len(passes) = 2 => outcome.kind = "MachineError"
        /\ Len(passes) = 3 => outcome.kind \in {"DictCheckerError", "SystemExit"}
        /\ Len(passes) = 4 => outcome.kind \in {"SystemExit", "KeyError"}
        /\ (HasSections /\ ~ExactlyOne) =>
              Terminated(ExclusivityMessage) /\ passes = <<"exclusivity">>
        /\ (HasSections /\ ExactlyOne /\ ~LegalPipeline) =>
              Propagated("MachineError") /\ passes = <<"exclusivity", "pipeline">>

\* an illegal pipeline with neither estimation nor bounds: the run terminates
C7_Witness ==
    /\ called /\ HasSections /\ ~ExactlyOne /\ ~LegalPipeline
    /\ "img_left" \notin DOMAIN UserInput
    /\ Terminated(ExclusivityMessage)

C9_SchemaVariant ==
    (called /\ Returned) =>
        IF EstimationDeclared
        THEN \A k \in DispKeys : ret["input"][k] = NaN
        ELSE \A k \in DispKeys : ret["input"][k].t = "int"

C9_Witness ==
    /\ called /\ Returned /\ EstimationDeclared
    /\ \E k \in DispKeys : k \in DOMAIN UserInput

(***************************************************************************)
(* C10                                                                     *)
(***************************************************************************)
\* C10: once the earlier passes succeeded, the nodata/method test reports a
\* violation only for a finite float nodata_right with sad or ssd, and a
\* configuration whose nodata_right is an integer, NaN or Infinity, or whose
\* pipeline has no matching_cost step, passes it and is returned.
C10_NodataCheck ==
    (called /\ Len(passes) >= 4) =>
        /\ Terminated(NodataMessage) =>
              ResolvedNodataRight.t = "float" /\ SadOrSsdDeclared
        /\ (ResolvedNodataRight.t \in {"int", "nan", "inf"} \/ ~MatchingCostDeclared) =>
              Returned

====
